---- MODULE Spec2Model ----
(***************************************************************************)
(* Model of nutils.mesh.gmesh (src/nutils/mesh.py): the import of a GMSH   *)
(* node/element table into a topology with named groups and a boundary    *)
(* extracted by edge parity.  One action per kind of element record, one   *)
(* for the code after the element loop, and one for a second call of gmesh *)
(* on the same records, in the same order or with the line records moved.  *)
(* Further down: rectilinear (SpecRect), the adaptive loop of the          *)
(* adaptivity example (SpecAdapt), the node section of gmesh (SpecNodes)   *)
(* and the test runner (SpecTest), each with a specification of its own.   *)
(***************************************************************************)
EXTENDS Integers, Sequences, FiniteSets, TLC

\* ------------------------------------------------------------------ bounds
MaxRecords == 3      \* longest element table
NNodes == 5          \* number of rows of the node table

\* ------------------------------------------------------------------ inputs
\* GMSH node ids of the node table, in file order (1-based in the file).
GmshIds == 1..NNodes

\* nidmap: GMSH node id -> position of its row in the node table.
nidmap == [g \in GmshIds |-> g - 1]

\* coords[:, :2]: the nodes lie on a lattice three nodes wide, so that nodes
\* 0, 1, 2 are collinear and 3, 4, ... lie above them.
coords == [n \in 0..(NNodes - 1) |-> <<n % 3, n \div 3>>]

\* GMSH element type codes: 1 line, 2 triangle, 15 point; 3 (quadrangle) is
\* a code that gmesh does not handle.
LineType == 1
TriangleType == 2
QuadType == 3
PointType == 15

\* words[3] (physical tag) and words[4] (elementary tag) of the records.
Phys0 == <<0, 1>>
Phys1 == <<1, 2>>
TagWords == {Phys0, Phys1}

Rec(t, w, g) == [etype |-> t, phys |-> w[1], ent |-> w[2], gids |-> g]

\* The triangle records: a fan of triangles around the edge of nodes 0 and 1
\* under either tag, the last triangle of the fan again in the opposite
\* orientation, and a record that repeats a node.
TriangleRecords ==
  {Rec(TriangleType, w, <<1, 2, k>>) : w \in TagWords, k \in 3..NNodes}
    \cup {Rec(TriangleType, Phys1, <<1, NNodes, 2>>),
          Rec(TriangleType, Phys0, <<1, 1, 2>>)}

\* The line records: the hub edge of the fan under either tag, an edge of
\* the last triangle of the fan given in descending order, and an edge of no
\* triangle.
LineRecords ==
  {Rec(LineType, w, <<1, 2>>) : w \in TagWords}
    \cup {Rec(LineType, Phys1, <<NNodes, 1>>),
          Rec(LineType, Phys0, <<NNodes - 1, NNodes>>)}

Records ==
  TriangleRecords \cup LineRecords
    \cup {Rec(PointType, Phys0, <<1>>),
          Rec(QuadType, Phys0, <<1, 2, NNodes, NNodes - 1>>)}

\* The tags and use_elementary arguments of the call; tags maps a raw tag id
\* to a group name.
Call(t, u) == [tags |-> t, use_elementary |-> u]

Calls ==
  {Call((1 :> "a" @@ 2 :> "b"), FALSE),
   Call((1 :> "a" @@ 2 :> "b"), TRUE),
   Call((1 :> "a"), TRUE)}

\* ----------------------------------------------------------------- helpers
EmptyDict == [k \in {} |-> k]

Values(d) == {d[k] : k \in DOMAIN d}

\* sorted(): insertion into an ascending sequence.
RECURSIVE Insert(_, _)
Insert(x, s) ==
  IF s = <<>> THEN <<x>>
  ELSE IF x <= Head(s) THEN <<x>> \o s
  ELSE <<Head(s)>> \o Insert(x, Tail(s))

RECURSIVE Sorted(_)
Sorted(s) == IF s = <<>> THEN <<>> ELSE Insert(Head(s), Sorted(Tail(s)))

\* 'physical' + words[3] and 'elementary' + words[4].
PhysicalName(i) == <<"physical0", "physical1", "physical2">>[i + 1]
ElementaryName(i) == <<"elementary0", "elementary1", "elementary2">>[i + 1]

\* dict.get(key, default)
Get(d, key, default) == IF key \in DOMAIN d THEN d[key] ELSE default

\* dict.setdefault(tag, []).append(x)
AppendTo(d, tag, x) ==
  [t \in DOMAIN d \cup {tag} |->
     IF t = tag THEN Append(Get(d, t, <<>>), x) ELSE d[t]]

\* ------------------------------------------------------------------- state
VARIABLES
  tags,            \* the tags argument
  use_elementary,  \* the use_elementary argument
  table,           \* elemdata: the element records, in file order
  run,             \* 1 in the first call of gmesh on the tables, 2 in the second
  pos,             \* number of records the element loop has consumed
  elems,           \* elemkey -> Element
  elemgroups,      \* tag -> list of Elements
  edges,           \* edgekey -> boundary facet (elem.edge(iedge))
  edgegroups,      \* tag -> list of elemkeys of line records
  nmap,            \* maptrans -> nids
  ret,             \* what the call returned: {} or {topo}
  warned,          \* the tags warned about as 'defined but not used'
  pc,              \* "loop" in the element loop, then "done" or "error"
  err,             \* the exception that ended the call
  first            \* the outcome of the first call, once the second has begun

vars == <<tags, use_elementary, table, run, pos, elems, elemgroups, edges,
          edgegroups, nmap, ret, warned, pc, err, first>>

\* --------------------------------------------------- the element loop body
\* lines 161-165: the group name of a record.
Tag(rec) ==
  IF use_elementary THEN Get(tags, rec.ent, ElementaryName(rec.ent))
  ELSE Get(tags, rec.phys, PhysicalName(rec.phys))

\* line 162: the assertion on words[3] under use_elementary.
TagAssertFails(rec) == use_elementary /\ rec.phys # 0

\* line 167: nids
Nids(rec) == [i \in 1..Len(rec.gids) |-> nidmap[rec.gids[i]]]

ElemKeyUnsorted(nids) == nids

\* line 168: elemkey
ElemKey(nids) == Sorted(nids)

\* line 177: numpy.linalg.det( elemcoords[:2] - elemcoords[2] )
Det(nids) ==
  LET p0 == coords[nids[1]]
      p1 == coords[nids[2]]
      p2 == coords[nids[3]]
  IN  (p0[1] - p2[1]) * (p1[2] - p2[2]) - (p0[2] - p2[2]) * (p1[1] - p2[1])

OrientNever(nids) == nids

\* lines 177-178: nids[:2] = nids[1], nids[0] when the determinant is negative.
Orient(nids) ==
  IF Det(nids) < 0 THEN <<nids[2], nids[1], nids[3]>> ELSE nids

\* lines 179-181: MapTrans(ref.vertices, nids) is identified by its nids, and
\* the Element by its transform.
MapTrans(nids) == nids
Element(maptrans) == [trans |-> maptrans]

ElemForRaw(d, elemkey, nids) == Element(MapTrans(nids))

\* lines 173-181: the Element of a triangle record: the one stored under its
\* elemkey, or a new one on the oriented nids.
ElemFor(d, elemkey, nids) ==
  IF elemkey \in DOMAIN d THEN d[elemkey] ELSE Element(MapTrans(Orient(nids)))

\* line 186: the node positions of edge iedge, [[1,2],[0,2],[0,1]] (0-based).
EdgeNodes == <<<<1, 2>>, <<0, 2>>, <<0, 1>>>>

EdgeKeyUnsorted(nids, iedge) ==
  LET e == EdgeNodes[iedge + 1]
  IN  <<nids[e[1] + 1], nids[e[2] + 1]>>

\* line 187: edgekey = tuple(sorted(nids[edge]))
EdgeKey(nids, iedge) ==
  LET e == EdgeNodes[iedge + 1]
  IN  Sorted(<<nids[e[1] + 1], nids[e[2] + 1]>>)

\* elem.edge(iedge)
Edge(elem, iedge) == [elem |-> elem, iedge |-> iedge]

ToggleKeep(d, edgekey, facet) ==
  [k \in DOMAIN d \cup {edgekey} |-> IF k = edgekey THEN facet ELSE d[k]]

\* lines 188-191: pop the key if present, else store the facet.
Toggle(d, edgekey, facet) ==
  IF edgekey \in DOMAIN d
    THEN [k \in DOMAIN d \ {edgekey} |-> d[k]]
    ELSE [k \in DOMAIN d \cup {edgekey} |-> IF k = edgekey THEN facet ELSE d[k]]

\* lines 186-191: the loop over the three edges of a new element.
RECURSIVE ToggleEdges(_, _, _, _)
ToggleEdges(d, elem, nids, iedge) ==
  IF iedge > 2 THEN d
  ELSE ToggleEdges(Toggle(d, EdgeKey(nids, iedge), Edge(elem, iedge)),
                   elem, nids, iedge + 1)

\* The record the loop reads next: in the first call the table is revealed
\* record by record, in the second call it is read again.
NextRecords ==
  IF run = 1
    THEN IF Len(table) < MaxRecords THEN Records ELSE {}
    ELSE IF pos < Len(table) THEN {table[pos + 1]} ELSE {}

Consume(rec) ==
  /\ table' = IF run = 1 THEN Append(table, rec) ELSE table
  /\ pos' = pos + 1
  /\ UNCHANGED <<tags, use_elementary, run, first, ret, warned>>

Raise(e) ==
  /\ pc' = "error"
  /\ err' = e
  /\ UNCHANGED <<elems, elemgroups, edges, edgegroups, nmap>>

LineRecordEager ==
  /\ pc = "loop"
  /\ \E rec \in NextRecords :
       /\ rec.etype = LineType
       /\ Consume(rec)
       /\ IF TagAssertFails(rec) THEN Raise("AssertionError")
          ELSE IF ElemKey(Nids(rec)) \notin DOMAIN edges THEN Raise("KeyError")
          ELSE /\ edgegroups' = AppendTo(edgegroups, Tag(rec), ElemKey(Nids(rec)))
               /\ UNCHANGED <<elems, elemgroups, edges, nmap, pc, err>>

\* lines 157-170: a line record.
LineRecord ==
  /\ pc = "loop"
  /\ \E rec \in NextRecords :
       /\ rec.etype = LineType
       /\ Consume(rec)
       /\ IF TagAssertFails(rec) THEN Raise("AssertionError")
          ELSE /\ edgegroups' = AppendTo(edgegroups, Tag(rec), ElemKey(Nids(rec)))
               /\ UNCHANGED <<elems, elemgroups, edges, nmap, pc, err>>

\* lines 157-168, 171-192: a triangle record.
TriangleRecord ==
  /\ pc = "loop"
  /\ \E rec \in NextRecords :
       /\ rec.etype = TriangleType
       /\ Consume(rec)
       /\ IF TagAssertFails(rec) \/ Len(Nids(rec)) # 3 THEN Raise("AssertionError")
          ELSE LET elemkey == ElemKey(Nids(rec))
               IN  IF elemkey \in DOMAIN elems
                     THEN /\ elemgroups' = AppendTo(elemgroups, Tag(rec),
                                                    ElemFor(elems, elemkey, Nids(rec)))
                          /\ UNCHANGED <<elems, edges, edgegroups, nmap, pc, err>>
                     ELSE LET elem == ElemFor(elems, elemkey, Nids(rec))
                              maptrans == elem.trans
                              nids == Orient(Nids(rec))
                          IN  /\ elems' = (elemkey :> elem) @@ elems
                              /\ nmap' = (maptrans :> nids) @@ nmap
                              /\ edges' = ToggleEdges(edges, elem, nids, 0)
                              /\ elemgroups' = AppendTo(elemgroups, Tag(rec), elem)
                              /\ UNCHANGED <<edgegroups, pc, err>>

\* lines 157-168, 193-194: a point record.
PointRecord ==
  /\ pc = "loop"
  /\ \E rec \in NextRecords :
       /\ rec.etype = PointType
       /\ Consume(rec)
       /\ IF TagAssertFails(rec) \/ ~use_elementary THEN Raise("AssertionError")
          ELSE UNCHANGED <<elems, elemgroups, edges, edgegroups, nmap, pc, err>>

OtherRecordSkip ==
  /\ pc = "loop"
  /\ \E rec \in NextRecords :
       /\ rec.etype \notin {LineType, TriangleType, PointType}
       /\ Consume(rec)
       /\ IF TagAssertFails(rec) THEN Raise("AssertionError")
          ELSE UNCHANGED <<elems, elemgroups, edges, edgegroups, nmap, pc, err>>

\* lines 157-168, 195-196: a record of any other type.
OtherRecord ==
  /\ pc = "loop"
  /\ \E rec \in NextRecords :
       /\ rec.etype \notin {LineType, TriangleType, PointType}
       /\ Consume(rec)
       /\ IF TagAssertFails(rec) THEN Raise("AssertionError")
          ELSE Raise("NotImplementedError")

\* ---------------------------------------------------- after the element loop
BoundaryGroupsSkip(d, groups) ==
  {[t \in DOMAIN groups |->
      LET present == SelectSeq(groups[t], LAMBDA k : k \in DOMAIN d)
      IN  [i \in 1..Len(present) |-> d[present[i]]]]}

\* line 201: tag -> the facets of the keys of that tag; edges[edgekey] raises
\* KeyError for a key that is not in edges.  {} stands for the KeyError, {g}
\* for the dictionary g.
BoundaryGroups(d, groups) ==
  IF \E t \in DOMAIN groups : \E i \in 1..Len(groups[t]) : groups[t][i] \notin DOMAIN d
    THEN {}
    ELSE {[t \in DOMAIN groups |->
             [i \in 1..Len(groups[t]) |-> d[groups[t][i]]]]}

UnusedTagsElemOnly(tagmap, groups, bgroups) ==
  {tag \in Values(tagmap) : tag \notin DOMAIN groups}

\* lines 203-205: the tags that get a warning.
UnusedTags(tagmap, groups, bgroups) ==
  {tag \in Values(tagmap) : tag \notin DOMAIN groups /\ tag \notin DOMAIN bgroups}

\* lines 198-214: build the topology, its groups and its boundary, warn about
\* unused tags, return.
Finish ==
  /\ pc = "loop"
  /\ run = 1 \/ pos = Len(table)
  /\ IF BoundaryGroups(edges, edgegroups) = {}
       THEN /\ pc' = "error"
            /\ err' = "KeyError"
            /\ UNCHANGED <<ret, warned>>
       ELSE LET topo == [elements |-> Values(elems),
                         groups |-> elemgroups,
                         boundary |-> Values(edges),
                         bgroups |-> CHOOSE g \in BoundaryGroups(edges, edgegroups) : TRUE]
            IN  /\ ret' = {topo}
                /\ warned' = UnusedTags(tags, topo.groups, topo.bgroups)
                /\ pc' = "done"
                /\ UNCHANGED err
  /\ UNCHANGED <<tags, use_elementary, table, run, pos, elems, elemgroups,
                 edges, edgegroups, nmap, first>>

\* ------------------------------------------------------------ a second call
\* The element table with its line records moved before, or after, all its
\* other records, each part in its own order.
IsLine(rec) == rec.etype = LineType
NotLine(rec) == rec.etype # LineType
LinesFirst(tbl) == SelectSeq(tbl, IsLine) \o SelectSeq(tbl, NotLine)
LinesLast(tbl) == SelectSeq(tbl, NotLine) \o SelectSeq(tbl, IsLine)

\* what the caller has of a call once it has ended
Outcome ==
  [table |-> table, pc |-> pc, err |-> err, keys |-> DOMAIN edges,
   ret |-> ret, warned |-> warned]

AgainStale ==
  /\ run = 1
  /\ pc \in {"done", "error"}
  /\ first' = {Outcome}
  /\ table' \in {table, LinesFirst(table), LinesLast(table)}
  /\ run' = 2
  /\ pos' = 0
  /\ ret' = {}
  /\ warned' = {}
  /\ pc' = "loop"
  /\ err' = "none"
  /\ UNCHANGED <<tags, use_elementary, elems, elemgroups, edges,
                 edgegroups, nmap>>

\* lines 147-156 of a second call of gmesh, on the same tables or on the
\* same records with the line records moved: every dictionary of the call
\* is a fresh local.
Again ==
  /\ run = 1
  /\ pc \in {"done", "error"}
  /\ first' = {Outcome}
  /\ table' \in {table, LinesFirst(table), LinesLast(table)}
  /\ run' = 2
  /\ pos' = 0
  /\ elems' = EmptyDict
  /\ elemgroups' = EmptyDict
  /\ edges' = EmptyDict
  /\ edgegroups' = EmptyDict
  /\ nmap' = EmptyDict
  /\ ret' = {}
  /\ warned' = {}
  /\ pc' = "loop"
  /\ err' = "none"
  /\ UNCHANGED <<tags, use_elementary>>

\* -------------------------------------------- state of the other programs
\* rectilinear (src/nutils/mesh.py lines 23-68)
VARIABLES
  richshape,       \* the richshape argument: one count or coordinate list per axis
  periodic,        \* the periodic argument: the set of periodic axes (0-based)
  meshname,        \* the name argument: a string or a 2D name array
  seqkind,         \* "list": coordinates are Python lists, "array": numpy arrays
  axis,            \* number of axes the loop of line 31 has consumed
  shape,           \* list of cell counts
  offset,          \* list of offsets, or the scalar 0 after line 45
  scale,           \* list of scales, or a scalar after line 47
  uniform,         \* False once an axis is not evenly spaced
  wrap,            \* the wrap extents handed to RootTrans
  structure,       \* multi-index -> Element
  rret,            \* what rectilinear returned: {} or {[topo, geom]}
  rpc,             \* "axes", "collapse", "build", "geom", "done", "error", "off"
  rerr             \* the exception that ended the call

rvars == <<richshape, periodic, meshname, seqkind, axis, shape, offset, scale,
           uniform, wrap, structure, rret, rpc, rerr>>

\* the node section of gmesh (src/nutils/mesh.py lines 129-144)
VARIABLES
  nodedata,        \* the lines of the Nodes section after the count
  nnodes,          \* the count that heads the section
  nodepos,         \* number of node lines the loop of line 137 has consumed
  nodeids,         \* nidmap while it is built: gmsh id -> row
  rows,            \* coords while it is built: row -> <<x, y, z>> or NaN
  kept,            \* coords after line 144: row -> <<x, y>>
  npc,             \* "nodes", "check", "done", "error", "off"
  nerr             \* the assertion that ended the node section

nvars == <<nodedata, nnodes, nodepos, nodeids, rows, kept, npc, nerr>>

\* main of the adaptivity example (src/examples/adaptivity.py lines 44-114)
VARIABLES
  nrefine,         \* the nrefine argument
  refine_all,      \* the uniform argument
  irefine,         \* the loop counter of line 73
  domain,          \* the current topology: a set of element transforms
  listed,          \* the transforms handed to the last refined_by
  before,          \* the topology the last refinement was applied to
  split,           \* every element a refinement has subdivided so far
  nsolved,         \* number of solve levels completed
  nrefined,        \* number of refinements of domain
  apc              \* "solve", "test", "refine", "returned", "off"

avars == <<nrefine, refine_all, irefine, domain, listed, before, split,
           nsolved, nrefined, apc>>

\* the test runner (src/tests/test.py)
VARIABLES
  count,           \* the global `count` of each loaded instance of the module
  listing,         \* os.listdir( path ), in the order the system gives
  myname,          \* the file name of the script
  items,           \* sorted( os.listdir( path ) )
  itempos,         \* number of items the loop of line 30 has consumed
  imported,        \* the modules imported so far, in order
  pending,         \* number of tests the module being imported still runs
  calls,           \* number of unittest calls that did not raise KeyboardInterrupt
  last,            \* the last unittest call: {} or {[outcome, before]}
  printed,         \* the totals line, once printed: {} or {<<ok, failed, error>>}
  status,          \* the exit status of the script: {} while it runs
  tpc              \* "start", "loop", "import", "exit", "off"

tvars == <<count, listing, myname, items, itempos, imported, pending, calls,
           last, printed, status, tpc>>

allvars == <<vars, rvars, nvars, avars, tvars>>

\* The value each program's state has while another program runs.
RectOff ==
  /\ richshape = <<>> /\ periodic = {} /\ meshname = [str |-> TRUE, match |-> {}]
  /\ seqkind = "list" /\ axis = 0 /\ shape = <<>> /\ offset = <<>>
  /\ scale = <<>> /\ uniform = TRUE /\ wrap = <<>> /\ structure = <<>>
  /\ rret = {} /\ rpc = "off" /\ rerr = "none"

NodesOff ==
  /\ nodedata = <<>> /\ nnodes = 0 /\ nodepos = 0 /\ nodeids = <<>>
  /\ rows = <<>> /\ kept = <<>> /\ npc = "off" /\ nerr = "none"

AdaptOff ==
  /\ nrefine = 0 /\ refine_all = FALSE /\ irefine = 0 /\ domain = {}
  /\ listed = {} /\ before = {} /\ split = {} /\ nsolved = 0 /\ nrefined = 0
  /\ apc = "off"

TestOff ==
  /\ count = <<>> /\ listing = <<>> /\ myname = 0 /\ items = <<>>
  /\ itempos = 0 /\ imported = <<>> /\ pending = 0 /\ calls = 0
  /\ last = {} /\ printed = {} /\ status = {} /\ tpc = "off"

GmeshOff ==
  /\ tags = <<>> /\ use_elementary = FALSE /\ table = <<>> /\ run = 1
  /\ pos = 0 /\ elems = <<>> /\ elemgroups = <<>> /\ edges = <<>>
  /\ edgegroups = <<>> /\ nmap = <<>> /\ ret = {} /\ warned = {}
  /\ pc = "off" /\ err = "none" /\ first = {}

\* ------------------------------------------------------------ specification
Init ==
  /\ \E call \in Calls :
       /\ tags = call.tags
       /\ use_elementary = call.use_elementary
  /\ table = <<>>
  /\ run = 1
  /\ pos = 0
  /\ elems = EmptyDict
  /\ elemgroups = EmptyDict
  /\ edges = EmptyDict
  /\ edgegroups = EmptyDict
  /\ nmap = EmptyDict
  /\ ret = {}
  /\ warned = {}
  /\ pc = "loop"
  /\ err = "none"
  /\ first = {}
  /\ RectOff /\ NodesOff /\ AdaptOff /\ TestOff

\* a step of gmesh leaves the other programs alone
GmeshOnly == UNCHANGED <<rvars, nvars, avars, tvars>>

Next ==
  \/ LineRecord /\ GmeshOnly
  \/ TriangleRecord /\ GmeshOnly
  \/ PointRecord /\ GmeshOnly
  \/ OtherRecord /\ GmeshOnly
  \/ Finish /\ GmeshOnly
  \/ Again /\ GmeshOnly

Spec == Init /\ [][Next]_allvars

TypeOK ==
  /\ pc \in {"loop", "done", "error"}
  /\ run \in {1, 2}
  /\ pos \in 0..MaxRecords
  /\ Len(table) <= MaxRecords
  /\ Cardinality(ret) <= 1

\* ================================================================== claims
\* Vocabulary of the claims, in terms of the element table and of what the
\* call returned.
TriIdx == {i \in 1..Len(table) : table[i].etype = TriangleType}
LineIdx == {i \in 1..Len(table) : table[i].etype = LineType}

\* the distinct sorted node-index tuples of the triangle records
TriKeys == {Sorted(Nids(table[i])) : i \in TriIdx}

Topo == CHOOSE topo \in ret : TRUE

Pair(a, b) == IF a <= b THEN <<a, b>> ELSE <<b, a>>

Pairs == {p \in (0..(NNodes - 1)) \X (0..(NNodes - 1)) : p[1] <= p[2]}

\* the sorted node pair of edge i (0, 1, 2: opposite to node i) of a node triple
SlotKey(n, i) ==
  CASE i = 0 -> Pair(n[2], n[3])
    [] i = 1 -> Pair(n[1], n[3])
    [] i = 2 -> Pair(n[1], n[2])

\* the number of triples of T that have the pair k as an edge
NumTriangles(T, k) ==
  Cardinality({n \in T : \E i \in 0..2 : SlotKey(n, i) = k})

\* the number of times the pair k occurs among the three edges of the triples of T
Occurrences(T, k) ==
  Cardinality({x \in T \X (0..2) : SlotKey(x[1], x[2]) = k})

ElemNids == {e.trans : e \in Topo.elements}

\* a node triple of three distinct nodes
Proper(n) == n[1] # n[2] /\ n[1] # n[3] /\ n[2] # n[3]

FacetKey(f) == SlotKey(f.elem.trans, f.iedge)

\* C1 as stated: after all element records have been processed, the keys of
\* the edge mapping are exactly the sorted node pairs that are an edge of an
\* odd number of distinct constructed triangles.
C1_OddTriangles ==
  pc = "done" =>
    LET keys == TriKeys
    IN  DOMAIN edges = {k \in Pairs : NumTriangles(keys, k) % 2 = 1}

\* C1 as amended: after all element records have been processed, the keys of
\* the edge mapping are exactly the sorted node pairs that occur an odd
\* number of times among the three edges of the distinct constructed
\* triangles (a triangle that repeats a node has the same pair twice); when
\* every triangle has three distinct nodes these are the pairs that are an
\* edge of an odd number of distinct constructed triangles.
C1_OddOccurrences ==
  pc = "done" =>
    LET keys == TriKeys
    IN  /\ DOMAIN edges = {k \in Pairs : Occurrences(keys, k) % 2 = 1}
        /\ (\A n \in keys : Proper(n)) =>
             DOMAIN edges = {k \in Pairs : NumTriangles(keys, k) % 2 = 1}

\* C1 witness: a finished import of at least two distinct triangles with an
\* edge that occurs twice and an edge that is left in the mapping.
C1_Witness ==
  /\ pc = "done"
  /\ Cardinality(TriKeys) >= 2
  /\ \E k \in Pairs : Occurrences(TriKeys, k) = 2
  /\ DOMAIN edges # {}

\* C2 as stated: every edge key left in the mapping is an edge of exactly one
\* element of the topology, and no edge shared by two elements is in the
\* boundary topology.  Stated for the tables whose triangles all have three
\* distinct nodes, where it fails as well.
C2_ExactlyOne ==
  (pc = "done" /\ \A n \in ElemNids : Proper(n)) =>
    LET tris == ElemNids
    IN  /\ \A k \in DOMAIN edges : NumTriangles(tris, k) = 1
        /\ \A f \in Topo.boundary : NumTriangles(tris, FacetKey(f)) # 2

\* C2 as amended: every edge key left in the mapping is an edge of an element
\* of the topology and occurs an odd number of times among the edges of the
\* elements of the topology, and no edge key that occurs exactly twice is in
\* the boundary topology; when no edge key occurs more than twice (a manifold
\* mesh) every key left is an edge of exactly one element and no edge shared
\* by two elements is in the boundary topology.
C2_OddFacets ==
  pc = "done" =>
    LET tris == ElemNids
    IN  /\ \A k \in DOMAIN edges :
             /\ edges[k] \in Topo.boundary
             /\ edges[k].elem \in Topo.elements
             /\ FacetKey(edges[k]) = k
             /\ Occurrences(tris, k) % 2 = 1
        /\ \A f \in Topo.boundary : Occurrences(tris, FacetKey(f)) # 2
        /\ (\A k \in Pairs : Occurrences(tris, k) <= 2) =>
             /\ \A k \in DOMAIN edges : NumTriangles(tris, k) = 1
             /\ \A f \in Topo.boundary : NumTriangles(tris, FacetKey(f)) # 2

\* C2 witness: a finished import in which an edge of three elements is a
\* boundary facet and another boundary facet is an edge of one element.
C2_Witness ==
  /\ pc = "done"
  /\ \E f \in Topo.boundary : NumTriangles(ElemNids, FacetKey(f)) = 3
  /\ \E f \in Topo.boundary : NumTriangles(ElemNids, FacetKey(f)) = 1

\* C3: in every returned topology each element of topo.groups[name] is an
\* element of topo and each facet of topo.boundary.groups[name] is an element
\* of topo.boundary, for every group name.
C3_GroupContainment ==
  \A topo \in ret :
    /\ \A name \in DOMAIN topo.groups : \A i \in 1..Len(topo.groups[name]) :
         topo.groups[name][i] \in topo.elements
    /\ \A name \in DOMAIN topo.bgroups : \A i \in 1..Len(topo.bgroups[name]) :
         topo.bgroups[name][i] \in topo.boundary

\* C3 witness: a returned topology with a group of two entries, one of them
\* from a repeated record, and a non-empty boundary group.
C3_Witness ==
  \E topo \in ret :
    /\ \E name \in DOMAIN topo.groups : Len(topo.groups[name]) >= 2
    /\ Cardinality(topo.elements) < Cardinality(TriIdx)
    /\ \E name \in DOMAIN topo.bgroups : Len(topo.bgroups[name]) >= 1

\* a step of the loop that reads a triangle record whose sorted tuple an
\* earlier triangle record of the call had
RepeatedTriangleStep ==
  /\ pc = "loop"
  /\ pos' = pos + 1
  /\ table'[pos'].etype = TriangleType
  /\ \E i \in 1..pos :
       /\ table[i].etype = TriangleType
       /\ Sorted(Nids(table[i])) = Sorted(Nids(table'[pos']))

OneElementPerTuple ==
  pc = "done" =>
    /\ Cardinality(Topo.elements) = Cardinality(TriKeys)
    /\ {Sorted(n) : n \in ElemNids} = TriKeys

\* C4: triangle records are deduplicated by their sorted node-index tuple:
\* the returned topology holds exactly one Element per distinct sorted tuple,
\* and a repeated record with an already seen tuple neither constructs a new
\* Element nor toggles any edge of the edge mapping again.
C4_Dedup ==
  /\ []OneElementPerTuple
  /\ [][RepeatedTriangleStep =>
          elems' = elems /\ nmap' = nmap /\ edges' = edges]_vars

\* C4 witness: a finished import whose table repeats a triangle in another
\* index order, after which an edge of that triangle is still in the mapping.
C4_Witness ==
  /\ pc = "done"
  /\ \E i, j \in TriIdx :
       /\ i < j
       /\ table[i].gids # table[j].gids
       /\ Sorted(Nids(table[i])) = Sorted(Nids(table[j]))
       /\ \E k \in DOMAIN edges : \E s \in 0..2 : SlotKey(Nids(table[i]), s) = k

TriSeq == SelectSeq(table, LAMBDA r : r.etype = TriangleType)

\* the element and edge mappings after the loop body of a triangle record
RECURSIVE AfterTriangles(_, _)
AfterTriangles(seq, acc) ==
  IF seq = <<>> THEN acc
  ELSE LET rec == Head(seq)
           elemkey == ElemKey(Nids(rec))
           elem == ElemFor(acc.elems, elemkey, Nids(rec))
       IN  AfterTriangles(Tail(seq),
             IF elemkey \in DOMAIN acc.elems THEN acc
             ELSE [elems |-> (elemkey :> elem) @@ acc.elems,
                   edges |-> ToggleEdges(acc.edges, elem, elem.trans, 0)])

LineKey(rec) == Pair(Nids(rec)[1], Nids(rec)[2])

\* the call runs on a reordering of the table of the first call
LinesMoved == \A f \in first : f.table # table

\* C5: a line record creates no element; each boundary group named T consists
\* of exactly the extracted boundary facets whose sorted node-pair key equals
\* the key of a line record tagged T; and the result is the same whether the
\* line records come before or after the triangle records: the elements and
\* the boundary are those that the loop gives on the triangle records alone,
\* and a call on the table with its line records moved before or after the
\* other records ends as the call on the table did, with the same topology.
C5_LineRecords ==
  /\ pc = "done" =>
       LET topo == Topo
           alone == AfterTriangles(TriSeq, [elems |-> EmptyDict, edges |-> EmptyDict])
       IN  /\ topo.elements = Values(alone.elems)
           /\ topo.boundary = Values(alone.edges)
           /\ DOMAIN topo.bgroups = {Tag(table[i]) : i \in LineIdx}
           /\ \A T \in DOMAIN topo.bgroups :
                {topo.bgroups[T][j] : j \in 1..Len(topo.bgroups[T])}
                  = {f \in topo.boundary :
                       \E i \in LineIdx :
                         Tag(table[i]) = T /\ LineKey(table[i]) = FacetKey(f)}
  /\ (run = 2 /\ pc # "loop" /\ LinesMoved) =>
       \A f \in first :
         /\ f.pc = pc
         /\ f.ret = ret
         /\ pc = "done" => f.keys = DOMAIN edges /\ f.warned = warned

\* C5 witness: a call has returned a topology with a boundary group on a
\* table whose line records were moved across a triangle record.
C5_Witness ==
  /\ run = 2
  /\ pc = "done"
  /\ LinesMoved
  /\ DOMAIN Topo.bgroups # {}

OddKeys == {k \in Pairs : Occurrences(TriKeys, k) % 2 = 1}

\* C6: a line record whose sorted node-pair key is not in the extracted
\* boundary-facet set aborts the import: no topology is returned (the call
\* ends in a KeyError, raised for no other reason), and in a returned
\* topology every line record has its facet in its boundary group.
C6_MissingLineKeyAborts ==
  /\ pc = "done" =>
       LET odd == OddKeys
           topo == Topo
       IN  \A i \in LineIdx :
             /\ LineKey(table[i]) \in odd
             /\ \E j \in 1..Len(topo.bgroups[Tag(table[i])]) :
                  FacetKey(topo.bgroups[Tag(table[i])][j]) = LineKey(table[i])
  /\ pc # "done" => ret = {}
  /\ err = "KeyError" =>
       pc = "error" /\ \E i \in LineIdx : LineKey(table[i]) \notin OddKeys

\* C6 witness: the import has aborted with a KeyError on a table with a line
\* record on an edge shared by two triangles.
C6_Witness ==
  /\ pc = "error"
  /\ err = "KeyError"
  /\ \E i \in LineIdx : NumTriangles(TriKeys, LineKey(table[i])) = 2

UnusedNames ==
  {name \in Values(tags) :
     \A i \in TriIdx \cup LineIdx : Tag(table[i]) # name}

\* C7: when the import reaches the tag check, a 'defined but not used'
\* warning is issued for exactly the group names of the tag mapping that are
\* the tag of no triangle record and of no line record, and the import
\* completes and returns the topology: the only error after the element loop
\* is the KeyError of a line record on a key that is not in the edge mapping.
C7_UnusedTagWarning ==
  /\ pc = "done" => ret # {} /\ warned = UnusedNames
  /\ pc # "done" => warned = {}
  /\ pc = "error" =>
       /\ err \in {"AssertionError", "NotImplementedError", "KeyError"}
       /\ err = "KeyError" => \E i \in LineIdx : LineKey(table[i]) \notin DOMAIN edges

\* C7 witness: a finished import that warned about one name of the tag
\* mapping and not about another that only a line record uses.
C7_Witness ==
  /\ pc = "done"
  /\ warned # {}
  /\ \E name \in Values(tags) \ warned :
       /\ \E i \in LineIdx : Tag(table[i]) = name
       /\ \A i \in TriIdx : Tag(table[i]) # name

\* C8: an element record whose type code is not recognised aborts the import
\* wherever it stands in the element table: once the loop has read it, the
\* call has failed and returns no topology.
C8_UnknownTypeAborts ==
  (\E i \in 1..pos : table[i].etype \notin {LineType, TriangleType, PointType}) =>
    pc = "error" /\ ret = {}

\* C8 witness: the import has aborted with NotImplementedError on a record
\* that follows a triangle record and a line record.
C8_Witness ==
  /\ pc = "error"
  /\ err = "NotImplementedError"
  /\ pos > 2
  /\ table[pos].etype = QuadType
  /\ elems # EmptyDict /\ edgegroups # EmptyDict

\* the record that constructed the Element stored under elemkey k
Constructor(k) ==
  LET i == CHOOSE i \in 1..pos :
             /\ table[i].etype = TriangleType
             /\ Sorted(Nids(table[i])) = k
             /\ \A j \in 1..(i - 1) :
                  table[j].etype = TriangleType => Sorted(Nids(table[j])) # k
  IN  table[i]

\* C9 as stated: the node order stored for every constructed triangle (nmap
\* and MapTrans) has a positive determinant.  Stated for the triangles of
\* three distinct nodes, where it fails as well.
C9_PositiveDet ==
  \A k \in DOMAIN elems :
    Proper(k) =>
      Det(elems[k].trans) > 0 /\ Det(nmap[elems[k].trans]) > 0

\* C9 as amended: the node order stored for a constructed triangle (nmap and
\* MapTrans) is that of its record with the first two node indices swapped if
\* the record's determinant is negative; its determinant is the absolute
\* value of the record's, so never negative, and positive unless the
\* record's determinant is zero (collinear or repeated nodes).
C9_NonNegativeDet ==
  \A k \in DOMAIN elems :
    LET raw == Nids(Constructor(k))
        stored == elems[k].trans
    IN  /\ nmap[stored] = stored
        /\ stored = IF Det(raw) < 0 THEN <<raw[2], raw[1], raw[3]>> ELSE raw
        /\ Det(stored) = IF Det(raw) < 0 THEN -Det(raw) ELSE Det(raw)
        /\ Det(stored) >= 0
        /\ Det(raw) # 0 => Det(stored) > 0

\* C9 witness: an Element constructed from a record of negative determinant
\* and one from a record of positive determinant.
C9_Witness ==
  /\ \E k \in DOMAIN elems : Det(Nids(Constructor(k))) < 0
  /\ \E k \in DOMAIN elems : Det(Nids(Constructor(k))) > 0

\* C10: a second run of gmesh on the same node and element tables ends as the
\* first did, with the same set of boundary-facet keys and the same boundary
\* groups (and the same topology and warnings).
C10_SameTwice ==
  (run = 2 /\ pc # "loop" /\ ~LinesMoved) => first = {Outcome}

\* C10 witness: the second run has finished on a table that leaves boundary
\* facets and a boundary group.
C10_Witness ==
  /\ run = 2
  /\ ~LinesMoved
  /\ pc = "done"
  /\ DOMAIN edges # {}
  /\ \E T \in DOMAIN Topo.bgroups : Len(Topo.bgroups[T]) >= 1

(***************************************************************************)
(* Model of nutils.mesh.rectilinear (src/nutils/mesh.py lines 23-68): one  *)
(* action for an iteration of the axis loop, one for the collapse of the   *)
(* offset and scale lists, one for the construction of the structure and   *)
(* one for the geometry and the return.                                    *)
(***************************************************************************)

\* ------------------------------------------------------------------ bounds
MaxCells == 3        \* largest cell count of an axis
MaxDims == 2         \* largest number of axes

\* ------------------------------------------------------------------ inputs
\* An axis of richshape is an int, or a sequence of coordinates.
IntAxis(n) == [int |-> TRUE, n |-> n, v |-> <<>>]
SeqAxis(v) == [int |-> FALSE, n |-> 0, v |-> v]

\* a + d*0, a + d*1, ..., a + d*n
Evenly(a, d, n) == [i \in 1..(n + 1) |-> a + d * (i - 1)]

AxisValues ==
  {IntAxis(n) : n \in (-1)..MaxCells}
    \cup {SeqAxis(Evenly(0, 1, n)) : n \in 0..MaxCells}
    \cup {SeqAxis(Evenly(1, 2, n)) : n \in 1..MaxCells}
    \cup {SeqAxis(<<>>), SeqAxis(<<0, 1, 3>>), SeqAxis(<<0, 2, 3>>)}

RichShapes == UNION {[1..d -> AxisValues] : d \in 1..MaxDims}

\* the periodic argument: no axis, axis 0, or every axis
Periodics(d) == {{}, {0}, 0..(d - 1)}

\* the name argument: a string, or a name array of which `match` are the
\* axes i with name.take(0,i) == name.take(2,i)
StrName == [str |-> TRUE, match |-> {}]
ArrayName(m) == [str |-> FALSE, match |-> m]
Names == {StrName, ArrayName({}), ArrayName({0})}

\* ---------------------------------------------------------------- helpers
\* a float: a number or NaN
Num(x) == [nan |-> FALSE, num |-> x]
NaN == [nan |-> TRUE, num |-> 0]
\* == of two floats: NaN equals nothing
FloatEq(s, t) == ~s.nan /\ ~t.nan /\ s.num = t.num

\* a list, or the scalar a list was replaced by
List(l) == [list |-> TRUE, v |-> l]
Scalar(x) == [list |-> FALSE, v |-> <<x>>]

\* line 37: numpy.equal( v, numpy.linspace(v[0],v[-1],len(v)) ).all(), for
\* len(v) >= 1; the i-th point of the linspace is v[0] + i*(v[-1]-v[0])/(len(v)-1)
IsLinspace(v) ==
  \A i \in 1..Len(v) :
    v[i] * (Len(v) - 1) = v[1] * (Len(v) - 1) + (i - 1) * (v[Len(v)] - v[1])

\* lines 31-43: the cell count an axis appends to shape
AxisShapeOffByOne(v) == IF v.int THEN v.n ELSE Len(v.v)

AxisShape(v) == IF v.int THEN v.n ELSE Len(v.v) - 1

\* line 39: (v[-1]-v[0]) / float(len(v)-1), for len(v) >= 2 and an evenly
\* spaced v, where the quotient is the common step
AxisScale(v) == Num((v[Len(v)] - v[1]) \div (Len(v) - 1))

RaiseRect(e) ==
  /\ rpc' = "error"
  /\ rerr' = e
  /\ UNCHANGED <<richshape, periodic, meshname, seqkind, axis, shape, offset,
                 scale, uniform, wrap, structure, rret>>

\* ---------------------------------------------------------------- actions
\* lines 31-43: one iteration of `for v in richshape`
AxisStep ==
  /\ rpc = "axes"
  /\ axis < Len(richshape)
  /\ LET v == richshape[axis + 1]
         next(sh, sc, of, un) ==
           /\ shape' = sh
           /\ scale' = sc
           /\ offset' = of
           /\ uniform' = un
           /\ axis' = axis + 1
           /\ rpc' = IF axis + 1 = Len(richshape) THEN "collapse" ELSE "axes"
           /\ UNCHANGED <<richshape, periodic, meshname, seqkind, wrap,
                          structure, rret, rerr>>
     IN  IF v.int
           THEN IF v.n > 0
                  THEN next(Append(shape, AxisShape(v)),
                            Append(scale, Num(1)), Append(offset, 0), uniform)
                  ELSE RaiseRect("AssertionError")
         ELSE IF Len(v.v) = 0
           THEN RaiseRect("IndexError")                 \* v[0] at line 37
         ELSE IF IsLinspace(v.v)
           THEN IF Len(v.v) = 1
                  THEN IF seqkind = "list"
                         THEN RaiseRect("ZeroDivisionError")   \* 0 / float(0)
                         ELSE next(Append(shape, AxisShape(v)),
                                   Append(scale, NaN),         \* numpy: 0/0.
                                   Append(offset, v.v[1]), uniform)
                  ELSE next(Append(shape, AxisShape(v)),
                            Append(scale, AxisScale(v.v)),
                            Append(offset, v.v[1]), uniform)
         ELSE next(Append(shape, AxisShape(v)), scale, offset, FALSE)

\* line 44, as written: the test skips offset[0]
OffsetsZero(of) == \A i \in 2..Len(of) : of[i] = 0

\* line 46
ScalesEqual(sc) == \A i \in 2..Len(sc) : FloatEq(sc[i], sc[1])

\* lines 44-47
Collapse ==
  /\ rpc = "collapse"
  /\ IF ScalesEqual(scale) /\ scale = <<>>
       THEN RaiseRect("IndexError")                     \* scale[0] at line 47
       ELSE /\ offset' = IF OffsetsZero(offset) THEN Scalar(0) ELSE List(offset)
            /\ scale' = IF ScalesEqual(scale) THEN Scalar(scale[1])
                        ELSE List(scale)
            /\ rpc' = "build"
            /\ UNCHANGED <<richshape, periodic, meshname, seqkind, axis, shape,
                           uniform, wrap, structure, rret, rerr>>

\* line 52: sh if i in periodic else 0, for i, sh in enumerate(shape)
WrapAll(sh, per) == [i \in 1..Len(sh) |-> sh[i]]

Wrap(sh, per) == [i \in 1..Len(sh) |-> IF (i - 1) \in per THEN sh[i] ELSE 0]

\* lines 53 and 56
RootTrans(nm, w) == [kind |-> "RootTrans", name |-> nm, ext |-> w]
RootTransEdges(nm, sh) == [kind |-> "RootTransEdges", name |-> nm, ext |-> sh]

\* line 60: element.Element( reference, root << transform.shift(index) )
ShiftElement(root, index) == [root |-> root, shift |-> index]

\* line 48: the lattice of multi-indices of shape sh
Grid(sh) == {ix \in [1..Len(sh) -> 0..MaxCells] : \A k \in 1..Len(sh) : ix[k] < sh[k]}

\* lines 48-61
Build ==
  /\ rpc = "build"
  /\ IF ~meshname.str /\ ~(periodic \subseteq meshname.match)
       THEN RaiseRect("AssertionError")                 \* line 55
       ELSE /\ wrap' = IF meshname.str THEN Wrap(shape, periodic) ELSE <<>>
            /\ LET root == IF meshname.str
                             THEN RootTrans(meshname, Wrap(shape, periodic))
                             ELSE RootTransEdges(meshname, shape)
               IN  structure' = [ix \in Grid(shape) |-> ShiftElement(root, ix)]
            /\ rpc' = "geom"
            /\ UNCHANGED <<richshape, periodic, meshname, seqkind, axis, shape,
                           offset, scale, uniform, rret, rerr>>

\* line 61
StructuredTopology(st, per) == [structure |-> st, periodic |-> per]

\* line 63: function.ElemFunc( ndims ) * scale + offset
Affine(sc, of) == [kind |-> "affine", scale |-> sc, offset |-> of, coords |-> <<>>]

\* lines 65-67: the degree-1 interpolation of the supplied coordinates
Interpolation(rs) ==
  [kind |-> "interpolation", scale |-> Scalar(NaN), offset |-> Scalar(0),
   coords |-> rs]

\* lines 61-68
Geometry ==
  /\ rpc = "geom"
  /\ rret' = {[topo |-> StructuredTopology(structure, periodic),
               geom |-> IF uniform THEN Affine(scale, offset)
                        ELSE Interpolation(richshape)]}
  /\ rpc' = "done"
  /\ UNCHANGED <<richshape, periodic, meshname, seqkind, axis, shape, offset,
                 scale, uniform, wrap, structure, rerr>>

\* ------------------------------------------------------------ specification
InitRect ==
  /\ richshape \in RichShapes
  /\ periodic \in Periodics(Len(richshape))
  /\ meshname \in Names
  /\ seqkind \in {"list", "array"}
  /\ axis = 0
  /\ shape = <<>>
  /\ offset = <<>>
  /\ scale = <<>>
  /\ uniform = TRUE
  /\ wrap = <<>>
  /\ structure = <<>>
  /\ rret = {}
  /\ rpc = "axes"
  /\ rerr = "none"
  /\ GmeshOff /\ NodesOff /\ AdaptOff /\ TestOff

RectOnly == UNCHANGED <<vars, nvars, avars, tvars>>

NextRect ==
  \/ AxisStep /\ RectOnly
  \/ Collapse /\ RectOnly
  \/ Build /\ RectOnly
  \/ Geometry /\ RectOnly

SpecRect == InitRect /\ [][NextRect]_allvars

\* ------------------------------------------ the structured topology (spec)
\* Section 4.3 step 3: the lattice neighbour of an element in the positive
\* direction of axis k, with a periodic axis wrapping index n-1 to index 0;
\* a set with the neighbour's index, or empty.
Neighbour(tp, ix, k) ==
  {jx \in DOMAIN tp.structure :
     /\ \A m \in DOMAIN ix : m # k => jx[m] = ix[m]
     /\ \/ jx[k] = ix[k] + 1
        \/ /\ (k - 1) \in tp.periodic
           /\ jx[k] = 0
           /\ \A lx \in DOMAIN tp.structure : lx[k] <= ix[k]}

\* the neighbour in the negative direction
NeighbourBack(tp, ix, k) == {jx \in DOMAIN tp.structure : ix \in Neighbour(tp, jx, k)}

\* topology.boundary: the facets <<index, axis, side>> of the elements that
\* have no neighbour across them (side 1: positive direction, 0: negative)
Boundary(tp) ==
  {f \in (DOMAIN tp.structure) \X (1..MaxDims) \X {0, 1} :
     /\ f[2] \in DOMAIN f[1]
     /\ IF f[3] = 1 THEN Neighbour(tp, f[1], f[2]) = {}
        ELSE NeighbourBack(tp, f[1], f[2]) = {}}

\* ------------------------------------------------- claims about rectilinear
\* the cell count an axis of the input asks for
CellCount(v) == IF v.int THEN v.n ELSE Len(v.v) - 1

\* the multi-indices of the lattice the input asks for
Lattice ==
  {ix \in [1..Len(richshape) -> 0..MaxCells] :
     \A k \in 1..Len(richshape) : ix[k] < CellCount(richshape[k])}

RTopo == (CHOOSE r \in rret : TRUE).topo
RGeom == (CHOOSE r \in rret : TRUE).geom

\* the product of the cell counts
RECURSIVE CellProduct(_)
CellProduct(rs) ==
  IF rs = <<>> THEN 1 ELSE CellCount(Head(rs)) * CellProduct(Tail(rs))

\* C11: a returned topology has exactly one Element per multi-index of the
\* lattice the input asks for, no two of them equal; a non-periodic grid of
\* n1 x n2 cells has n1*n2 elements and 2*(n1+n2) boundary facets, so the
\* coordinates [0,1,2,3] x [0,1,2] give 6 elements and 10 boundary facets.
C11_OneElementPerIndex ==
  (rpc = "done" /\ \A k \in 1..Len(richshape) : CellCount(richshape[k]) >= 1) =>
    LET st == RTopo.structure
        elements == {st[ix] : ix \in DOMAIN st}
    IN  /\ DOMAIN st = Lattice
        /\ \A ix \in DOMAIN st : \A jx \in DOMAIN st : st[ix] = st[jx] => ix = jx
        /\ \A ix \in DOMAIN st : st[ix].shift = ix
        /\ Cardinality(elements) = CellProduct(richshape)
        /\ (Len(richshape) = 2 /\ periodic = {}) =>
             Cardinality(Boundary(RTopo)) =
               2 * (CellCount(richshape[1]) + CellCount(richshape[2]))
        /\ (/\ richshape = <<SeqAxis(<<0, 1, 2, 3>>), SeqAxis(<<0, 1, 2>>)>>
            /\ periodic = {}) =>
             Cardinality(elements) = 6 /\ Cardinality(Boundary(RTopo)) = 10

C11_Witness ==
  /\ rpc = "done"
  /\ richshape = <<SeqAxis(<<0, 1, 2, 3>>), SeqAxis(<<0, 1, 2>>)>>
  /\ periodic = {}
  /\ Cardinality(DOMAIN RTopo.structure) = 6
  /\ Cardinality(Boundary(RTopo)) = 10

\* C12: a call in which some axis asks for a non-positive cell count, as an
\* integer v <= 0 or as a coordinate sequence with fewer than two points,
\* ends in an error and returns no topology.
C12_NonPositiveCountFails ==
  (\E k \in 1..Len(richshape) : CellCount(richshape[k]) <= 0) =>
    rpc # "done" /\ rret = {}

\* the factor or term of the geometry on axis k
Coef(x, k) == IF x.list THEN x.v[k] ELSE x.v[1]

\* the closed form of the claim on an axis
ClosedScale(v) ==
  IF v.int THEN Num(1) ELSE Num((v.v[Len(v.v)] - v.v[1]) \div (Len(v.v) - 1))
ClosedOffset(v) == IF v.int THEN 0 ELSE v.v[1]

\* C13: when every axis is uniform the returned geometry is scale *
\* reference coordinate + offset with scale_k = (v[-1]-v[0])/(len(v)-1) and
\* offset_k = v[0] on every axis k (1 and 0 for an integer count), so that
\* lattice vertex i of axis k is mapped to v_k[i], on axis 0 as on the others.
C13_ClosedForm ==
  (/\ rpc = "done"
   /\ uniform
   /\ \A k \in 1..Len(richshape) : CellCount(richshape[k]) >= 1) =>
    /\ RGeom.kind = "affine"
    /\ \A k \in 1..Len(richshape) :
         /\ Coef(RGeom.scale, k) = ClosedScale(richshape[k])
         /\ Coef(RGeom.offset, k) = ClosedOffset(richshape[k])
         /\ ~richshape[k].int =>
              \A i \in 0..CellCount(richshape[k]) :
                i * Coef(RGeom.scale, k).num + Coef(RGeom.offset, k)
                  = richshape[k].v[i + 1]

\* an axis given by coordinates that are not evenly spaced
NotEven(v) == ~v.int /\ Len(v.v) >= 1 /\ ~IsLinspace(v.v)

\* C14: a call with at least one axis that is not evenly spaced (the other
\* axes well-formed) does not fail: it is marked non-uniform and returns a
\* topology with len(v)-1 cells on each such axis and the degree-1
\* interpolation of the supplied coordinates, also when no axis is uniform.
C14_NonUniformCompletes ==
  (/\ \E k \in 1..Len(richshape) : NotEven(richshape[k])
   /\ \A k \in 1..Len(richshape) : CellCount(richshape[k]) >= 1
   /\ meshname.str) =>
    /\ rpc # "error"
    /\ rpc \in {"collapse", "build", "geom", "done"} => ~uniform
    /\ rpc = "done" =>
         /\ RGeom.kind = "interpolation"
         /\ RGeom.coords = richshape
         /\ DOMAIN RTopo.structure = Lattice

\* C15: with a string name the wrap extent of the root transform on axis k
\* is the cell count n_k when k is periodic and 0 otherwise; in the returned
\* topology the positive-direction neighbour of an element with index n_k-1
\* on a periodic axis k is the element with index 0 on that axis and the
\* same other indices, and on a non-periodic axis it has no such neighbour.
C15_PeriodicWrap ==
  /\ (rpc \in {"geom", "done"} /\ meshname.str) =>
       /\ Len(wrap) = Len(richshape)
       /\ \A k \in 1..Len(richshape) :
            wrap[k] = IF (k - 1) \in periodic THEN CellCount(richshape[k]) ELSE 0
       /\ \A ix \in DOMAIN structure :
            structure[ix].root = RootTrans(meshname, wrap)
  /\ (rpc = "done" /\ meshname.str) =>
       \A ix \in DOMAIN RTopo.structure : \A k \in DOMAIN ix :
         ix[k] = CellCount(richshape[k]) - 1 =>
           Neighbour(RTopo, ix, k) =
             IF (k - 1) \in periodic THEN {[ix EXCEPT ![k] = 0]} ELSE {}

C15_Witness ==
  /\ rpc = "done"
  /\ meshname.str
  /\ Len(richshape) = 2
  /\ periodic = {0}
  /\ CellCount(richshape[1]) = 3
  /\ Neighbour(RTopo, <<2, 1>>, 1) = {<<0, 1>>}
  /\ Neighbour(RTopo, <<2, 1>>, 2) = {}

(***************************************************************************)
(* Model of the adaptive loop of main (src/examples/adaptivity.py lines    *)
(* 44-114): one action for a solve level, one for the break of line 104    *)
(* and one for the refinement of lines 107-112.  An element is its         *)
(* transform: the index of a base element followed by the child transforms *)
(* that lead to it.                                                        *)
(***************************************************************************)

\* ------------------------------------------------------------------ bounds
MaxRefine == 3       \* largest value of the nrefine argument

\* ------------------------------------------------------------------ inputs
\* lines 54-58: the elements of the domain before any refinement
BaseElements == {<<1>>, <<2>>}

\* section 4.2: the child transforms of the subdivision rule of a reference
\* shape (axis bisection), the same at every call
ChildTransforms == {1, 2}

\* ------------------------------------------------------ refinement (spec)
\* element.transform << child-transform
Child(e, c) == Append(e, c)
Children(e) == {Child(e, c) : c \in ChildTransforms}

\* section 4.6, topology.refined: every element is subdivided
Refined(dom) == UNION {Children(e) : e \in dom}

\* section 4.6, refined_by: only the listed elements are subdivided, the
\* others are copied unchanged
RefinedBy(dom, lst) ==
  {e \in dom : e \notin lst} \cup UNION {Children(e) : e \in dom \cap lst}

\* section 4.6, supp: elements of the fine topology that carry the masked
\* degrees of freedom; which ones is decided by the error indicator
Supports(fine, dom) ==
  {{Child(e, c) : e \in P, c \in C} :
     P \in SUBSET dom, C \in (SUBSET ChildTransforms) \ {{}}}

\* ------------------------------------------------------------ the loop body
\* line 112: elem.transform[:-1]
WholeTransform(t) == t

ParentTransform(t) == SubSeq(t, 1, Len(t) - 1)

\* line 112: the generator handed to refined_by
Listed(supp) == {ParentTransform(elem) : elem \in supp}

\* line 104: irefine >= nrefine
PastLast(i, n) == i > n

AtLast(i, n) == i >= n

\* lines 72-101: the next value of the counter, the coarse and fine problems,
\* the error estimate and the plots
SolveLevel ==
  /\ apc = "solve"
  /\ irefine' = irefine + 1
  /\ nsolved' = nsolved + 1
  /\ apc' = "test"
  /\ UNCHANGED <<nrefine, refine_all, domain, listed, before, split, nrefined>>

\* lines 104-105 and 114: break and return
Break ==
  /\ apc = "test"
  /\ AtLast(irefine, nrefine)
  /\ apc' = "returned"
  /\ UNCHANGED <<nrefine, refine_all, irefine, domain, listed, before, split,
                 nsolved, nrefined>>

\* lines 107-112: refine the mesh
Refine ==
  /\ apc = "test"
  /\ ~AtLast(irefine, nrefine)
  /\ \E supp \in Supports(Refined(domain), domain) :
       LET lst == IF refine_all THEN domain ELSE Listed(supp)
       IN  /\ domain' = IF refine_all THEN Refined(domain)
                        ELSE RefinedBy(domain, lst)
           /\ listed' = lst
           /\ split' = split \cup (domain \cap lst)
  /\ before' = domain
  /\ nrefined' = nrefined + 1
  /\ apc' = "solve"
  /\ UNCHANGED <<nrefine, refine_all, irefine, nsolved>>

\* ------------------------------------------------------------ specification
InitAdapt ==
  /\ nrefine \in (-1)..MaxRefine
  /\ refine_all \in BOOLEAN
  /\ irefine = 0
  /\ domain = BaseElements
  /\ listed = {}
  /\ before = BaseElements
  /\ split = {}
  /\ nsolved = 0
  /\ nrefined = 0
  /\ apc = "solve"
  /\ GmeshOff /\ RectOff /\ NodesOff /\ TestOff

AdaptOnly == UNCHANGED <<vars, rvars, nvars, tvars>>

NextAdapt ==
  \/ SolveLevel /\ AdaptOnly
  \/ Break /\ AdaptOnly
  \/ Refine /\ AdaptOnly

SpecAdapt == InitAdapt /\ [][NextAdapt]_allvars

\* every step of main ends: the loop goes on until it breaks
SpecAdaptFair == SpecAdapt /\ WF_allvars(NextAdapt)

\* ------------------------------------------- claims about the adaptive loop
\* e is an ancestor of f, or f itself
IsPrefix(e, f) == Len(e) <= Len(f) /\ SubSeq(f, 1, Len(e)) = e

\* C16: after any sequence of refinements every element listed in the last
\* call is replaced by its children, every unlisted element is carried over
\* unchanged, nothing else is in the topology, an element that was split is
\* never active again, and no element is in a topology together with one of
\* its own descendants.
C16_OnlyListedSplit ==
  /\ listed \subseteq before
  /\ \A e \in listed : e \notin domain /\ Children(e) \subseteq domain
  /\ \A e \in before \ listed : e \in domain
  /\ domain \subseteq (before \ listed) \cup UNION {Children(e) : e \in listed}
  /\ split \cap domain = {}
  /\ \A e \in domain : \A f \in domain : IsPrefix(e, f) => e = f
  /\ \A e \in split : \E f \in domain : IsPrefix(e, f) /\ e # f

C16_Witness ==
  /\ nrefined = 2
  /\ ~refine_all
  /\ listed # {}
  /\ listed # before
  /\ \E e \in domain : Len(e) = 3
  /\ \E e \in domain : Len(e) = 1

Max(a, b) == IF a >= b THEN a ELSE b

\* C17 as stated: main ends after exactly max(1, nrefine) solve levels and
\* exactly max(0, nrefine-1) refinements, never more than nrefine.
C17_AtMostNrefine ==
  apc = "returned" =>
    /\ nsolved = Max(1, nrefine)
    /\ nrefined = Max(0, nrefine - 1)
    /\ nrefined <= nrefine

\* the counts of C17 while the loop runs
LevelCounts ==
  /\ nsolved <= Max(1, nrefine)
  /\ nrefined <= Max(0, nrefine - 1)
  /\ nrefined <= Max(0, nrefine)
  /\ apc = "solve" => nrefined = nsolved
  /\ apc \in {"test", "returned"} => nrefined = nsolved - 1
  /\ apc = "returned" =>
       nsolved = Max(1, nrefine) /\ nrefined = Max(0, nrefine - 1)

\* C17 as amended: for every integer nrefine main ends, after exactly
\* max(1, nrefine) solve levels and exactly max(0, nrefine-1) refinements
\* (never more than max(0, nrefine)), and every refinement is followed by a
\* solve level, so that none comes after the last one.
C17_Terminates == []LevelCounts /\ <>(apc = "returned")

C17_Witness ==
  /\ apc = "returned"
  /\ nrefine = MaxRefine
  /\ nsolved = MaxRefine
  /\ nrefined = MaxRefine - 1

(***************************************************************************)
(* Model of the node section of gmesh (src/nutils/mesh.py lines 129-144):  *)
(* one action for the header of the section, one for an iteration of the   *)
(* node loop and one for the checks that follow it.                        *)
(***************************************************************************)

\* ------------------------------------------------------------------ bounds
MaxNodeLines == 3    \* longest node section

\* ------------------------------------------------------------------ inputs
\* a line of the section: the gmsh id and the three coordinates
NodeLine(id, x, y, z) == [id |-> id, x |-> x, y |-> y, z |-> z]

NodeLines ==
  {NodeLine(id, Num(x), Num(0), z) :
     id \in {1, 2}, x \in {0, 1}, z \in {Num(0), Num(1), NaN}}

NodeTables == UNION {[1..n -> NodeLines] : n \in 0..MaxNodeLines}

\* ---------------------------------------------------------------- helpers
RaiseNodes(e) ==
  /\ npc' = "error"
  /\ nerr' = e
  /\ UNCHANGED <<nodedata, nnodes, nodepos, nodeids, rows, kept>>

\* bool(x) of a float: NaN and every non-zero number are true
Truthy(x) == x.nan \/ x.num # 0

\* numpy.all( column ): every entry is true
NumpyAll(col) == \A r \in DOMAIN col : Truthy(col[r])

\* the comparison `b == 0` of a bool with the integer 0
BoolIsZero(b) == ~b

\* ---------------------------------------------------------------- actions
\* lines 130-136: the count, the length check and the empty coords array
NodeHeader ==
  /\ npc = "header"
  /\ IF Len(nodedata) # nnodes
       THEN RaiseNodes("AssertionError")                       \* line 132
       ELSE /\ rows' = [r \in 0..(nnodes - 1) |-> <<NaN, NaN, NaN>>]
            /\ nodeids' = EmptyDict
            /\ npc' = "nodes"
            /\ UNCHANGED <<nodedata, nnodes, nodepos, kept, nerr>>

\* lines 137-141: one iteration of `for line in nodedata`
NodeRow ==
  /\ npc = "nodes"
  /\ nodepos < Len(nodedata)
  /\ LET words == nodedata[nodepos + 1]
         nid == Cardinality(DOMAIN nodeids)
     IN  /\ nodeids' = [g \in DOMAIN nodeids \cup {words.id} |->
                          IF g = words.id THEN nid ELSE nodeids[g]]
         /\ rows' = [rows EXCEPT ![nid] = <<words.x, words.y, words.z>>]
  /\ nodepos' = nodepos + 1
  /\ UNCHANGED <<nodedata, nnodes, kept, npc, nerr>>

\* lines 142-144: the NaN check, the check of the third coordinate as
\* written, `numpy.all( coords[:,2] ) == 0`, and the cut to two columns
NodeCheck ==
  /\ npc = "nodes"
  /\ nodepos = Len(nodedata)
  /\ LET third == [r \in DOMAIN rows |-> rows[r][3]]
     IN  IF \E r \in DOMAIN rows : \E c \in 1..3 : rows[r][c].nan
           THEN RaiseNodes("AssertionError")                   \* line 142
         ELSE IF ~BoolIsZero(NumpyAll(third))
           THEN RaiseNodes("ndims=3 case not yet implemented.")  \* line 143
         ELSE /\ kept' = [r \in DOMAIN rows |-> <<rows[r][1], rows[r][2]>>]
              /\ npc' = "done"
              /\ UNCHANGED <<nodedata, nnodes, nodepos, nodeids, rows, nerr>>

\* ------------------------------------------------------------ specification
InitNodes ==
  /\ nodedata \in NodeTables
  /\ nnodes \in {Len(nodedata), Len(nodedata) + 1}
  /\ nodepos = 0
  /\ nodeids = EmptyDict
  /\ rows = <<>>
  /\ kept = <<>>
  /\ npc = "header"
  /\ nerr = "none"
  /\ GmeshOff /\ RectOff /\ AdaptOff /\ TestOff

NodesOnly == UNCHANGED <<vars, rvars, avars, tvars>>

NextNodes ==
  \/ NodeHeader /\ NodesOnly
  \/ NodeRow /\ NodesOnly
  \/ NodeCheck /\ NodesOnly

SpecNodes == InitNodes /\ [][NextNodes]_allvars

\* ------------------------------------------- claims about the node section
\* a node line with a non-zero third coordinate
OffPlane(ln) == ~ln.z.nan /\ ln.z.num # 0

\* C18: a node table in which some node has a non-zero third coordinate is
\* rejected with 'ndims=3 case not yet implemented' (or an earlier
\* assertion): the import does not continue past the check; whenever it does
\* continue, every node has third coordinate 0 and the rows kept are the
\* first two coordinates of the rows read.
C18_ThirdCoordinateZero ==
  /\ (\E i \in 1..Len(nodedata) : OffPlane(nodedata[i])) => npc # "done"
  /\ npc = "done" =>
       /\ \A r \in DOMAIN rows : rows[r][3] = Num(0)
       /\ DOMAIN kept = DOMAIN rows
       /\ \A r \in DOMAIN rows : kept[r] = <<rows[r][1], rows[r][2]>>

(***************************************************************************)
(* Model of the test runner (src/tests/test.py): one action for a call of  *)
(* unittest by a test of the module being imported, and one each for the   *)
(* start of the script, an item of the directory, the end of an import and *)
(* the totals.  Run as a script the file is the module __main__; a test    *)
(* module that imports `test` gets a second instance of it, with a count   *)
(* of its own.                                                             *)
(***************************************************************************)

\* ------------------------------------------------------------------ bounds
MaxFiles == 4        \* largest number of files in the directory
MaxTests == 2        \* largest number of tests of a module

\* ------------------------------------------------------------------ inputs
\* a file of the directory: item == name + ext; names in alphabetical order
File(n) == [name |-> n, ext |-> IF n % 3 = 0 THEN ".txt" ELSE ".py"]

\* what os.listdir may return: distinct files, in any order
Listings ==
  {l \in UNION {[1..n -> {File(k) : k \in 1..MaxFiles}] : n \in 1..MaxFiles} :
     \A i \in 1..Len(l) : \A j \in 1..Len(l) : l[i] = l[j] => i = j}

\* how a decorated test function ends
Outcomes == {"return", "AssertionError", "Exception", "KeyboardInterrupt"}

Instances == {"__main__", "test"}

\* ---------------------------------------------------------------- helpers
\* sorted( ... ) of a list of items
RECURSIVE InsertItem(_, _)
InsertItem(x, s) ==
  IF s = <<>> THEN <<x>>
  ELSE IF x.name <= Head(s).name THEN <<x>> \o s
  ELSE <<Head(s)>> \o InsertItem(x, Tail(s))

RECURSIVE SortedItems(_)
SortedItems(s) ==
  IF s = <<>> THEN <<>> ELSE InsertItem(Head(s), SortedItems(Tail(s)))

\* lines 8-22: the index into count of the handler that takes the outcome
SlotNoFailed(outcome) == IF outcome = "return" THEN 1 ELSE 3

Slot(outcome) ==
  IF outcome = "return" THEN 1
  ELSE IF outcome = "AssertionError" THEN 2
  ELSE 3

\* an exception nobody catches ends the script with status 1
Uncaught ==
  /\ status' = {1}
  /\ tpc' = "exit"

\* ---------------------------------------------------------------- actions
\* lines 27-29: the script splits its path and rebinds the global count
Start ==
  /\ tpc = "start"
  /\ count' = [count EXCEPT !["__main__"] = Scalar(0)]
  /\ items' = SortedItems(listing)
  /\ listing' = <<>>
  /\ tpc' = "loop"
  /\ UNCHANGED <<myname, itempos, imported, pending, calls, last, printed,
                 status>>

\* lines 30-35: one item of the loop, up to the start of its import
Item ==
  /\ tpc = "loop"
  /\ itempos < Len(items)
  /\ LET item == items[itempos + 1]
     IN  IF item.name # myname /\ item.ext = ".py"
           THEN /\ count' = [count EXCEPT !["__main__"] =
                               Scalar(count["__main__"].v[1] + 1)]
                /\ imported' = Append(imported, item.name)
                /\ pending' \in 0..MaxTests
                /\ tpc' = "import"
                /\ UNCHANGED itempos
           ELSE /\ itempos' = itempos + 1
                /\ UNCHANGED <<count, imported, pending, tpc>>
  /\ UNCHANGED <<listing, myname, items, calls, last, printed, status>>

\* lines 5-25: unittest( func ) of instance m, func ending in `outcome`
UnittestOn(m, outcome) ==
  IF outcome = "KeyboardInterrupt"
    THEN /\ Uncaught                                    \* line 9
         /\ UNCHANGED <<count, calls, last, pending>>
  ELSE IF ~count[m].list
    THEN /\ Uncaught                   \* count[i] += 1 on an int: TypeError
         /\ UNCHANGED <<count, calls, last, pending>>
  ELSE /\ count' = [count EXCEPT ![m] =
                      List([count[m].v EXCEPT ![Slot(outcome)] = @ + 1])]
       /\ calls' = calls + 1
       /\ last' = {[outcome |-> outcome, before |-> count[m]]}
       /\ pending' = pending - 1
       /\ UNCHANGED <<status, tpc>>

\* a test of the module being imported is decorated: the module took
\* unittest from `test`
Unittest ==
  /\ tpc = "import"
  /\ pending > 0
  /\ \E outcome \in Outcomes : UnittestOn("test", outcome)
  /\ UNCHANGED <<listing, myname, items, itempos, imported, printed>>

\* line 36: the import has returned
EndImport ==
  /\ tpc = "import"
  /\ pending = 0
  /\ itempos' = itempos + 1
  /\ tpc' = "loop"
  /\ UNCHANGED <<count, listing, myname, items, imported, pending, calls, last,
                 printed, status>>

\* lines 37-38: the totals and the exit status
Totals ==
  /\ tpc = "loop"
  /\ itempos = Len(items)
  /\ LET c == count["__main__"]
     IN  IF c.list
           THEN /\ printed' = {c.v}
                /\ status' = {c.v[2] + c.v[3]}
                /\ tpc' = "exit"
           ELSE /\ Uncaught            \* tuple( count ) of an int: TypeError
                /\ UNCHANGED printed
  /\ UNCHANGED <<count, listing, myname, items, itempos, imported, pending,
                 calls, last>>

\* ------------------------------------------------------------ specification
InitTest ==
  /\ count = [m \in Instances |-> List(<<0, 0, 0>>)]
  /\ listing \in Listings
  /\ \E i \in 1..Len(listing) :
       listing[i].ext = ".py" /\ myname = listing[i].name
  /\ items = <<>>
  /\ itempos = 0
  /\ imported = <<>>
  /\ pending = 0
  /\ calls = 0
  /\ last = {}
  /\ printed = {}
  /\ status = {}
  /\ tpc = "start"
  /\ GmeshOff /\ RectOff /\ NodesOff /\ AdaptOff

TestOnly == UNCHANGED <<vars, rvars, nvars, avars>>

NextTest ==
  \/ Start /\ TestOnly
  \/ Item /\ TestOnly
  \/ Unittest /\ TestOnly
  \/ EndImport /\ TestOnly
  \/ Totals /\ TestOnly

SpecTest == InitTest /\ [][NextTest]_allvars

\* ------------------------------------------- claims about the test runner
\* the counters of the instance the tests are counted in
Counters == count["test"].v

\* C19: each call of unittest increments exactly one counter, ok if func
\* returns, failed if it raises AssertionError, error if it raises anything
\* else, and leaves the two others unchanged; a KeyboardInterrupt is raised
\* again with no counter changed; so the three counters add up to the number
\* of calls that did not raise KeyboardInterrupt.
C19_OneCounterPerCall ==
  /\ count["test"].list
  /\ Counters[1] + Counters[2] + Counters[3] = calls
  /\ \A l \in last :
       /\ l.outcome # "KeyboardInterrupt"
       /\ \A i \in 1..3 :
            Counters[i] =
              l.before.v[i] +
                (IF \/ i = 1 /\ l.outcome = "return"
                    \/ i = 2 /\ l.outcome = "AssertionError"
                    \/ i = 3 /\ l.outcome \notin {"return", "AssertionError"}
                 THEN 1 ELSE 0)

C19_Witness ==
  /\ Counters[1] >= 1
  /\ Counters[2] >= 1
  /\ Counters[3] >= 1
  /\ \E l \in last : l.outcome = "AssertionError"

\* the modules the script is to import, in sorted order
RECURSIVE ToImport(_)
ToImport(n) ==
  IF n = 0 THEN <<>>
  ELSE ToImport(n - 1) \o
         (IF /\ \E i \in 1..Len(items) : items[i] = File(n)
             /\ n # myname
             /\ File(n).ext = ".py"
          THEN <<n>> ELSE <<>>)

\* C20: a run of the script that no test interrupts imports every other .py
\* module of its directory in sorted order, prints the totals of successful,
\* failed and errored tests and exits with the number of failed plus errored
\* tests as status, 0 exactly when every test passed.
C20_TotalsAndStatus ==
  (tpc = "exit" /\ itempos = Len(items) /\ pending = 0) =>
    /\ imported = ToImport(MaxFiles)
    /\ printed = {Counters}
    /\ status = {Counters[2] + Counters[3]}

====
